---- MODULE Spec2Model ----
(***************************************************************************)
(* State-machine model of tools/migration_monitor_gui.py: the Tk           *)
(* presentation thread (start, stop, _pump_queue, _apply_stats), the       *)
(* worker threads running _worker_loop / fetch_stats, the event queue and  *)
(* the stop event they share, and the wall clock both sides read.          *)
(*                                                                         *)
(* Texts typed into the form are sequences of one-character strings.       *)
(* Floats are modelled by exact rationals [num, den]; int() is floor.      *)
(***************************************************************************)
EXTENDS Integers, Sequences, FiniteSets, TLC

VARIABLES
    hasMongo,     \* MongoClient is not None (fixed at import, lines 10-13)
    running,      \* self.running
    worker,       \* self.worker: slot of the last thread started, 0 = None
    stop_event,   \* self.stop_event.is_set()
    event_queue,  \* self.event_queue, oldest first
    history,      \* self.history
    status_var,   \* self.status_var
    v1_var,       \* self.v1_var, as the other counters of lines 251-256 set with it
    rate_var,     \* self.rate_var
    eta_var,      \* self.eta_var
    updated_var,  \* self.updated_var
    dialog,       \* the modal messagebox that is open, "none" when none is
    ui,           \* position of the Tk thread: "idle", or "pump" inside _pump_queue's loop
    th,           \* the worker threads: slot -> [pc, interval, left, held]
    now,          \* time.time(), in seconds
    fresh,        \* ghost: the worker of the current session has not queued a sample yet
    stopped,      \* ghost: live threads that were in their inter-poll wait when stop() ran
    evicted,      \* ghost: how many entries the last _apply_stats dropped from history
    marked,       \* ghost: position in event_queue of the event being followed, 0 = none
    arg_v1,       \* input of the counting step of fetch_stats checked alone
    arg_v2,       \* input of the counting step of fetch_stats checked alone
    res_progress, \* its result, kind "unset" until computed
    arg_seconds,  \* input of format_duration checked alone, after int()
    res_duration, \* its result, kind "-" until computed
    arg_history,  \* retained history given to the estimate of _apply_stats checked alone
    arg_stats_v1, \* stats["v1_ready"] given to it
    res_rate,     \* what it shows as rate, kind "-" until computed
    res_eta,      \* what it shows as ETA, kind "-" until computed
    fs_pc,        \* position of one fetch_stats call checked alone
    fs_client,    \* its client: "none" before MongoClient returns, "open", "closed"
    fs_queries,   \* how many of its count_documents calls have returned
    fs_outcome    \* what its finally clause hands on: "return", "raise", "none" before

vars == <<hasMongo, running, worker, stop_event, event_queue, history, status_var,
          v1_var, rate_var, eta_var, updated_var, dialog, ui, th, now, fresh, stopped, evicted, marked,
          arg_v1, arg_v2, res_progress, arg_seconds, res_duration,
          arg_history, arg_stats_v1, res_rate, res_eta,
          fs_pc, fs_client, fs_queries, fs_outcome>>

probevars == <<fs_pc, fs_client, fs_queries, fs_outcome>>

fnvars == <<arg_v1, arg_v2, res_progress, arg_seconds, res_duration,
            arg_history, arg_stats_v1, res_rate, res_eta, probevars>>

\* what the checks of single functions leave alone: the application
appvars == <<hasMongo, running, worker, stop_event, event_queue, history, status_var,
             v1_var, rate_var, eta_var, updated_var, dialog, ui, th, now, fresh, stopped, evicted, marked>>

ghosts == <<fresh, stopped, evicted, marked>>

(***************************************************************************)
(* Bounds of the model.                                                    *)
(***************************************************************************)
MaxThreads == 2      \* worker threads alive at once
MaxSamples == 3      \* samples held by workers, queued, or in history
MaxQueue == 2        \* events waiting in event_queue
MaxClock == 2        \* the clock runs from 0 to MaxClock * ClockStep
MaxCount == 1        \* largest v1_ready count a probe returns
MaxArg == 7          \* largest count given to the counting step checked alone
MaxRestartSamples == 2   \* MaxSamples of the scenario with overlapping workers
MaxDuration == 120       \* format_duration is given 0 .. MaxDuration strides
DurationStride == 1801   \* seconds between two inputs given to format_duration

(***************************************************************************)
(* Program constants.                                                      *)
(***************************************************************************)
Retention == 6 * 3600
SleepsPerSecond == 10
SecondsPerHour == 3600
CountQueries == 5

ClockStep == 4 * 3600
Threads == 1..MaxThreads
Counts == 0..MaxCount
ClockValues == {k * ClockStep : k \in 0..MaxClock}

(***************************************************************************)
(* Texts of the form fields.                                               *)
(***************************************************************************)
UriTexts == { <<>>, <<" ">>, <<"u">> }
DbTexts == { <<>>, <<"d">> }
IntervalTexts == { <<"1">>, <<" ", "2">>, <<"0">>, <<"-", "5">>,
                   <<"a", "b", "c">>, <<>> }

IsSpace(c) == c \in {" ", "\t", "\n"}
IsDigit(c) == c \in {"0", "1", "2", "3", "4", "5", "6", "7", "8", "9"}

DigitVal(c) ==
    CASE c = "0" -> 0 [] c = "1" -> 1 [] c = "2" -> 2 [] c = "3" -> 3
      [] c = "4" -> 4 [] c = "5" -> 5 [] c = "6" -> 6 [] c = "7" -> 7
      [] c = "8" -> 8 [] c = "9" -> 9

SetMin(S) == CHOOSE x \in S : \A y \in S : x <= y
SetMax(S) == CHOOSE x \in S : \A y \in S : x >= y

\* str.strip()
strip(s) ==
    LET keep == {i \in 1..Len(s) : ~IsSpace(s[i])}
    IN  IF keep = {} THEN <<>> ELSE SubSeq(s, SetMin(keep), SetMax(keep))

RECURSIVE DigitsVal(_)
DigitsVal(s) ==
    IF s = <<>> THEN 0
    ELSE DigitsVal(SubSeq(s, 1, Len(s) - 1)) * 10 + DigitVal(s[Len(s)])

\* int(text): optional sign, then decimal digits; anything else raises ValueError
int(s) ==
    LET t == strip(s)
        signed == t # <<>> /\ t[1] \in {"-", "+"}
        body == IF signed THEN Tail(t) ELSE t
        ok == body # <<>> /\ \A i \in 1..Len(body) : IsDigit(body[i])
    IN  [ok |-> ok,
         val |-> IF ~ok THEN 0
                 ELSE IF signed /\ t[1] = "-" THEN 0 - DigitsVal(body)
                 ELSE DigitsVal(body)]

\* the test of line 179 written "< 0": an interval of 0 is let through
IntervalOk_AcceptsZero(iv) == int(iv).ok /\ ~(int(iv).val < 0)

\* interval = int(...); if interval <= 0: raise ValueError
IntervalOk(iv) == int(iv).ok /\ ~(int(iv).val <= 0)

\* the validation of start(): "ok", or the field the error dialog names
Validate(uri_text, db_text, iv) ==
    IF strip(uri_text) = <<>> THEN "uri"
    ELSE IF strip(db_text) = <<>> THEN "db"
    ELSE IF ~IntervalOk(iv) THEN "interval"
    ELSE "ok"

\* what lines 168-183 of start() decide for the three texts
Outcome(uri_text, db_text, iv) ==
    LET v == Validate(uri_text, db_text, iv)
    IN  [result |-> v, interval |-> IF v = "ok" THEN int(iv).val ELSE 0]

(***************************************************************************)
(* Samples, events and displayed values.                                   *)
(***************************************************************************)
NoSample == [ts |-> 0, v1 |-> 0]
StatsEvent(s) == [kind |-> "stats", ts |-> s.ts, v1 |-> s.v1]
ErrorEvent == [kind |-> "error", ts |-> 0, v1 |-> 0]

Unset == [kind |-> "unset", num |-> 0, den |-> 1]
Dash == [kind |-> "-", num |-> 0, den |-> 1]
NotAvailable == [kind |-> "n/a", num |-> 0, den |-> 1]
CountDash == [kind |-> "-", val |-> 0]
UpdatedDash == [kind |-> "-", at |-> 0]
EtaDash == [kind |-> "-", days |-> 0, hours |-> 0, minutes |-> 0]
EtaNotAvailable == [kind |-> "n/a", days |-> 0, hours |-> 0, minutes |-> 0]

IdleThread == [pc |-> "none", interval |-> 0, left |-> 0, held |-> NoSample]

Live == {t \in Threads : th[t].pc # "none"}

StatsQueued == Len(SelectSeq(event_queue, LAMBDA e : e.kind = "stats"))
SamplesInFlight ==
    Len(history) + StatsQueued + Cardinality({t \in Threads : th[t].pc = "put"})

(***************************************************************************)
(* format_duration                                                         *)
(***************************************************************************)
Max0(x) == IF x < 0 THEN 0 ELSE x

\* format_int: the count shown, never below 0
format_int(value) == [kind |-> "int", val |-> Max0(value)]

format_duration(seconds) ==
    LET sec == Max0(seconds)
        days == sec \div 86400
        hours == (sec % 86400) \div 3600
        minutes == (sec % 3600) \div 60
    IN  IF days > 0
        THEN [kind |-> "dhm", days |-> days, hours |-> hours, minutes |-> minutes]
        ELSE IF hours > 0
        THEN [kind |-> "hm", days |-> 0, hours |-> hours, minutes |-> minutes]
        ELSE [kind |-> "m", days |-> 0, hours |-> 0, minutes |-> minutes]

(***************************************************************************)
(* fetch_stats: the progress percentage, as the rational num / den.        *)
(***************************************************************************)
\* the percentage taken of what remains instead of what is done
Progress_OfRemaining(v1_ready, v2_ready) ==
    LET total == v1_ready + v2_ready
    IN  IF total = 0 THEN [kind |-> "pct", num |-> 100, den |-> 1]
        ELSE [kind |-> "pct", num |-> v1_ready * 100, den |-> total]

Progress(v1_ready, v2_ready) ==
    LET total == v1_ready + v2_ready
    IN  IF total = 0 THEN [kind |-> "pct", num |-> 100, den |-> 1]
        ELSE [kind |-> "pct", num |-> v2_ready * 100, den |-> total]

(***************************************************************************)
(* _apply_stats: the retained window and the two-point estimate.           *)
(***************************************************************************)
\* self.history = [x for x in self.history if x["ts"] >= cutoff]
Retained(h, clock) ==
    LET cutoff == clock - Retention
    IN  SelectSeq(h, LAMBDA x : x.ts >= cutoff)

\* the difference of line 240 taken the other way round
RatePerHour_NewestMinusOldest(h) ==
    IF Len(h) >= 2
    THEN LET oldest == h[1]
             newest == h[Len(h)]
             dv1 == newest.v1 - oldest.v1
             dt == newest.ts - oldest.ts
         IN  IF dv1 > 0 /\ dt > 0
             THEN [num |-> dv1 * SecondsPerHour, den |-> dt]
             ELSE [num |-> 0, den |-> 1]
    ELSE [num |-> 0, den |-> 1]

\* rate_per_hour, as the rational num / den (0 / 1 when the guards fail)
RatePerHour(h) ==
    IF Len(h) >= 2
    THEN LET oldest == h[1]
             newest == h[Len(h)]
             dv1 == oldest.v1 - newest.v1
             dt == newest.ts - oldest.ts
         IN  IF dv1 > 0 /\ dt > 0
             THEN [num |-> dv1 * SecondsPerHour, den |-> dt]
             ELSE [num |-> 0, den |-> 1]
    ELSE [num |-> 0, den |-> 1]

\* rate_per_hour > 0
IsPositive(rate) == rate.num * rate.den > 0

\* what rate_var shows
RateText(rate) ==
    IF IsPositive(rate) THEN [kind |-> "v1/hour", num |-> rate.num, den |-> rate.den]
    ELSE NotAvailable

\* the estimate divided by the rate alone, the factor of line 248 left out
EtaText_InHours(rate, v1_ready) ==
    IF IsPositive(rate)
    THEN format_duration((v1_ready * rate.den) \div rate.num)
    ELSE EtaNotAvailable

\* eta_text: int((v1_ready / rate_per_hour) * 3600.0) given to format_duration
EtaText(rate, v1_ready) ==
    IF IsPositive(rate)
    THEN format_duration((v1_ready * rate.den * SecondsPerHour) \div rate.num)
    ELSE EtaNotAvailable

\* fetch_stats has not been called
ProbeNotCalled ==
    /\ fs_pc = "call"
    /\ fs_client = "none"
    /\ fs_queries = 0
    /\ fs_outcome = "none"

(***************************************************************************)
(* Initial state: App.__init__                                             *)
(***************************************************************************)
InitApp ==
    /\ hasMongo \in BOOLEAN
    /\ running = FALSE
    /\ worker = 0
    /\ stop_event = FALSE
    /\ event_queue = <<>>
    /\ history = <<>>
    /\ status_var = "Stopped"
    /\ v1_var = CountDash
    /\ rate_var = Dash
    /\ eta_var = EtaDash
    /\ updated_var = UpdatedDash
    /\ dialog = "none"
    /\ ui = "idle"
    /\ th = [t \in Threads |-> IdleThread]
    /\ now = 0
    /\ fresh = FALSE
    /\ stopped = {}
    /\ evicted = 0
    /\ marked = 0

Init ==
    /\ InitApp
    /\ arg_v1 = 0
    /\ arg_v2 = 0
    /\ res_progress = Unset
    /\ arg_seconds = 0
    /\ res_duration = EtaDash
    /\ arg_history = <<>>
    /\ arg_stats_v1 = 0
    /\ res_rate = Dash
    /\ res_eta = EtaDash
    /\ ProbeNotCalled


(***************************************************************************)
(* start()                                                                 *)
(***************************************************************************)
\* the thread spawned by start(), at the top of _worker_loop
Spawned(interval) ==
    [pc |-> "while", interval |-> interval, left |-> 0, held |-> NoSample]

StartSession(t, interval) ==
    /\ stop_event' = FALSE
    /\ running' = TRUE
    /\ status_var' = "Running"
    /\ history' = <<>>
    /\ worker' = t
    /\ th' = [th EXCEPT ![t] = Spawned(interval)]
    /\ fresh' = TRUE
    /\ UNCHANGED <<hasMongo, event_queue, v1_var, rate_var, eta_var, updated_var, dialog, ui, now,
                   stopped, evicted, marked, fnvars>>

ShowError(title) ==
    /\ dialog' = title
    /\ UNCHANGED <<hasMongo, running, worker, stop_event, event_queue, history,
                   status_var, v1_var, rate_var, eta_var, updated_var, ui, th, now, ghosts, fnvars>>

\* start() without the test of lines 165-166
start_call_NoRunningCheck(o) ==
    /\ ui = "idle"
    /\ dialog = "none"
    /\ IF ~hasMongo THEN ShowError("Missing dependency")
       ELSE IF o.result # "ok" THEN ShowError("Config error")
       ELSE /\ Threads \ Live # {}
            /\ StartSession(SetMin(Threads \ Live), o.interval)

\* start(), given what its validation decides; the new thread takes the lowest
\* free slot
start_call(o) ==
    /\ ui = "idle"
    /\ dialog = "none"
    /\ IF ~hasMongo THEN ShowError("Missing dependency")
       ELSE IF running THEN UNCHANGED vars
       ELSE IF o.result # "ok" THEN ShowError("Config error")
       ELSE /\ Threads \ Live # {}
            /\ StartSession(SetMin(Threads \ Live), o.interval)

start(uri_text, db_text, iv) == start_call(Outcome(uri_text, db_text, iv))

\* the user closes the messagebox
Dismiss ==
    /\ dialog # "none"
    /\ dialog' = "none"
    /\ UNCHANGED <<hasMongo, running, worker, stop_event, event_queue, history,
                   status_var, v1_var, rate_var, eta_var, updated_var, ui, th, now, ghosts, fnvars>>

(***************************************************************************)
(* stop()                                                                  *)
(***************************************************************************)
\* stop() joining the worker: it returns only once the thread has left its loop
stop_Joins ==
    /\ ui = "idle"
    /\ dialog = "none"
    /\ IF ~running THEN UNCHANGED vars
       ELSE /\ Live = {}
            /\ stop_event' = TRUE
            /\ running' = FALSE
            /\ status_var' = "Stopped"
            /\ UNCHANGED <<hasMongo, worker, event_queue, history, v1_var, rate_var,
                           eta_var, updated_var, dialog, ui, th, now, ghosts, fnvars>>

\* stop() without the test of lines 198-199
stop_NoRunningCheck ==
    /\ ui = "idle"
    /\ dialog = "none"
    /\ stop_event' = TRUE
    /\ running' = FALSE
    /\ status_var' = "Stopped"
    /\ stopped' = stopped \cup {t \in Threads : th[t].pc \in {"for", "sleep"}}
    /\ UNCHANGED <<hasMongo, worker, event_queue, history, v1_var, rate_var, eta_var,
                   updated_var, dialog, ui, th, now, fresh, evicted, marked, fnvars>>

stop ==
    /\ ui = "idle"
    /\ dialog = "none"
    /\ IF ~running THEN UNCHANGED vars
       ELSE /\ stop_event' = TRUE
            /\ running' = FALSE
            /\ status_var' = "Stopped"
            /\ stopped' = stopped \cup {t \in Threads : th[t].pc \in {"for", "sleep"}}
            /\ UNCHANGED <<hasMongo, worker, event_queue, history, v1_var, rate_var, eta_var, updated_var,
                           dialog, ui, th, now, fresh, evicted, marked, fnvars>>

(***************************************************************************)
(* _worker_loop, one action per step of thread t                           *)
(***************************************************************************)
WorkerFrame ==
    UNCHANGED <<hasMongo, running, worker, stop_event, history, status_var,
                v1_var, rate_var, eta_var, updated_var, dialog, ui, now, evicted, marked, fnvars>>

\* line 207: while not self.stop_event.is_set()
WhileTest(t) ==
    /\ th[t].pc = "while"
    /\ IF stop_event
       THEN /\ th' = [th EXCEPT ![t] = IdleThread]
            /\ stopped' = stopped \ {t}
       ELSE /\ th' = [th EXCEPT ![t].pc = "fetch"]
            /\ UNCHANGED stopped
    /\ UNCHANGED <<event_queue, fresh>>
    /\ WorkerFrame

\* line 209: fetch_stats returns counts stamped with time.time()
FetchOk(t) ==
    /\ th[t].pc = "fetch"
    /\ SamplesInFlight < MaxSamples
    /\ \E c \in Counts :
          th' = [th EXCEPT ![t].pc = "put",
                           ![t].held = [ts |-> now, v1 |-> c]]
    /\ UNCHANGED <<event_queue, fresh, stopped>>
    /\ WorkerFrame

\* after the put, the for loop of line 213 starts with interval * 10 iterations to go
EnterWait(r) ==
    [r EXCEPT !.pc = "for", !.left = r.interval * SleepsPerSecond, !.held = NoSample]

\* line 210: self.event_queue.put(("stats", stats))
PutStats(t) ==
    /\ th[t].pc = "put"
    /\ Len(event_queue) < MaxQueue
    /\ event_queue' = Append(event_queue, StatsEvent(th[t].held))
    /\ th' = [th EXCEPT ![t] = EnterWait(th[t])]
    /\ fresh' = (fresh /\ t # worker)
    /\ UNCHANGED stopped
    /\ WorkerFrame

\* the handler of lines 211-212 swallowing the failure: nothing is put
FetchFail_Silent(t) ==
    /\ th[t].pc = "fetch"
    /\ th' = [th EXCEPT ![t] = EnterWait(th[t])]
    /\ UNCHANGED <<event_queue, fresh, stopped>>
    /\ WorkerFrame

\* the handler of lines 211-212 leaving the loop after its put
FetchFail_Dies(t) ==
    /\ th[t].pc = "fetch"
    /\ Len(event_queue) < MaxQueue
    /\ event_queue' = Append(event_queue, ErrorEvent)
    /\ th' = [th EXCEPT ![t] = IdleThread]
    /\ UNCHANGED <<fresh, stopped>>
    /\ WorkerFrame

\* lines 211-212: fetch_stats raises, the handler puts ("error", str(exc))
FetchFail(t) ==
    /\ th[t].pc = "fetch"
    /\ Len(event_queue) < MaxQueue
    /\ event_queue' = Append(event_queue, ErrorEvent)
    /\ th' = [th EXCEPT ![t] = EnterWait(th[t])]
    /\ UNCHANGED <<fresh, stopped>>
    /\ WorkerFrame

\* lines 213-214 on entering the for loop: an empty range ends it at once; else
\* the first iteration breaks when the stop event is set, or goes to sleep
ForTest(t) ==
    /\ th[t].pc = "for"
    /\ th' = [th EXCEPT ![t].pc = IF th[t].left <= 0 \/ stop_event
                                  THEN "while" ELSE "sleep"]
    /\ UNCHANGED <<event_queue, fresh, stopped>>
    /\ WorkerFrame

\* line 216 returns; then the range is exhausted (213) or the next iteration
\* tests the stop event (214)
SleepWake(t) ==
    /\ th[t].pc = "sleep"
    /\ th' = [th EXCEPT ![t].left = th[t].left - 1,
                        ![t].pc = IF th[t].left - 1 = 0 \/ stop_event
                                  THEN "while" ELSE "sleep"]
    /\ UNCHANGED <<event_queue, fresh, stopped>>
    /\ WorkerFrame

worker_loop(t) ==
    \/ WhileTest(t)
    \/ FetchOk(t)
    \/ PutStats(t)
    \/ FetchFail(t)
    \/ ForTest(t)
    \/ SleepWake(t)

(***************************************************************************)
(* _pump_queue and _apply_stats                                            *)
(***************************************************************************)
PumpFrame ==
    UNCHANGED <<hasMongo, running, worker, stop_event, dialog, th, now,
                fresh, stopped, fnvars>>

apply_stats(stats) ==
    LET appended == Append(history, [ts |-> stats.ts, v1 |-> stats.v1])
        kept == Retained(appended, now)
        rate == RatePerHour(kept)
    IN  /\ history' = kept
        /\ evicted' = Len(appended) - Len(kept)
        /\ v1_var' = format_int(stats.v1)
        /\ rate_var' = RateText(rate)
        /\ updated_var' = [kind |-> "at", at |-> now]
        /\ eta_var' = EtaText(rate, stats.v1)
        /\ status_var' = "Running"

\* get_nowait handing out the newest event instead of the oldest
PumpGet_TakesNewest ==
    /\ event_queue # <<>>
    /\ event_queue' = SubSeq(event_queue, 1, Len(event_queue) - 1)
    /\ ui' = "pump"
    /\ IF event_queue[Len(event_queue)].kind = "error"
       THEN /\ status_var' = "Error"
            /\ UNCHANGED <<history, v1_var, rate_var, eta_var, updated_var, evicted>>
       ELSE apply_stats(event_queue[Len(event_queue)])
    /\ marked' = Max0(marked - 1)
    /\ PumpFrame

\* the error branch of line 226 blanking the estimate as well
PumpGet_ErrorResets ==
    /\ event_queue # <<>>
    /\ event_queue' = Tail(event_queue)
    /\ ui' = "pump"
    /\ IF Head(event_queue).kind = "error"
       THEN /\ status_var' = "Error"
            /\ rate_var' = NotAvailable
            /\ eta_var' = EtaNotAvailable
            /\ UNCHANGED <<history, v1_var, updated_var, evicted>>
       ELSE apply_stats(Head(event_queue))
    /\ marked' = Max0(marked - 1)
    /\ PumpFrame

\* one iteration of the loop of lines 219-228 that finds an event
PumpGet ==
    /\ event_queue # <<>>
    /\ event_queue' = Tail(event_queue)
    /\ ui' = "pump"
    /\ IF Head(event_queue).kind = "error"
       THEN /\ status_var' = "Error"
            /\ UNCHANGED <<history, v1_var, rate_var, eta_var, updated_var, evicted>>
       ELSE apply_stats(Head(event_queue))
    /\ marked' = Max0(marked - 1)
    /\ PumpFrame

\* get_nowait raises queue.Empty: the loop ends and the next call is scheduled
PumpEmpty ==
    /\ event_queue = <<>>
    /\ ui' = "idle"
    /\ UNCHANGED <<event_queue, history, status_var, v1_var, rate_var, eta_var,
                   updated_var, evicted, marked>>
    /\ PumpFrame

pump_queue == PumpGet \/ PumpEmpty

(***************************************************************************)
(* The wall clock                                                          *)
(***************************************************************************)
ClockFrame ==
    UNCHANGED <<hasMongo, running, worker, stop_event, event_queue, history,
                status_var, v1_var, rate_var, eta_var, updated_var, dialog, ui, th, ghosts, fnvars>>

ClockTick ==
    /\ now + ClockStep <= MaxClock * ClockStep
    /\ now' = now + ClockStep
    /\ ClockFrame

\* the system clock is set back: time.time() may return less than it did before
ClockSetBack ==
    /\ \E c \in ClockValues : c < now /\ now' = c
    /\ ClockFrame

(***************************************************************************)
(* The counting step of fetch_stats (lines 54-55), applied to given counts *)
(***************************************************************************)
CountStep ==
    /\ res_progress = Unset
    /\ res_progress' = Progress(arg_v1, arg_v2)
    /\ UNCHANGED <<hasMongo, running, worker, stop_event, event_queue, history,
                   status_var, v1_var, rate_var, eta_var, updated_var, dialog, ui, th, now, ghosts,
                   arg_v1, arg_v2, arg_seconds, res_duration,
                   arg_history, arg_stats_v1, res_rate, res_eta, probevars>>

(***************************************************************************)
(* format_duration (lines 20-29), applied to a given number of seconds     *)
(***************************************************************************)
DurationStep ==
    /\ res_duration = EtaDash
    /\ res_duration' = format_duration(arg_seconds)
    /\ UNCHANGED <<appvars, arg_v1, arg_v2, res_progress, arg_seconds,
                   arg_history, arg_stats_v1, res_rate, res_eta, probevars>>

(***************************************************************************)
(* The estimate of _apply_stats (lines 237-249, 257-258), applied to a     *)
(* given retained history and a given stats["v1_ready"]                    *)
(***************************************************************************)
EstimateStep ==
    /\ res_rate = Dash
    /\ res_rate' = RateText(RatePerHour(arg_history))
    /\ res_eta' = EtaText(RatePerHour(arg_history), arg_stats_v1)
    /\ UNCHANGED <<appvars, arg_v1, arg_v2, res_progress, arg_seconds, res_duration,
                   arg_history, arg_stats_v1, probevars>>

(***************************************************************************)
(* One call of fetch_stats (lines 32-67), step by step: the client, the    *)
(* five count queries, the result, the finally clause                      *)
(***************************************************************************)
ProbeFrame ==
    UNCHANGED <<appvars, arg_v1, arg_v2, arg_seconds, res_duration,
                arg_history, arg_stats_v1, res_rate, res_eta>>

\* line 33: MongoClient(...) returns a client
ProbeOpen ==
    /\ fs_pc = "call"
    /\ fs_pc' = "try"
    /\ fs_client' = "open"
    /\ UNCHANGED <<fs_queries, fs_outcome, res_progress>>
    /\ ProbeFrame

\* line 33: MongoClient(...) raises, outside the try: there is no client
ProbeOpenRaises ==
    /\ fs_pc = "call"
    /\ fs_pc' = "raised"
    /\ fs_outcome' = "raise"
    /\ UNCHANGED <<fs_client, fs_queries, res_progress>>
    /\ ProbeFrame

\* lines 48-52: the next count_documents call returns
ProbeQuery ==
    /\ fs_pc = "try"
    /\ fs_queries < CountQueries
    /\ fs_queries' = fs_queries + 1
    /\ UNCHANGED <<fs_pc, fs_client, fs_outcome, res_progress>>
    /\ ProbeFrame

\* the close written after the queries instead of in a finally clause: an
\* exception leaves fetch_stats at once
ProbeQueryRaises_NoFinally ==
    /\ fs_pc = "try"
    /\ fs_queries < CountQueries
    /\ fs_pc' = "raised"
    /\ fs_outcome' = "raise"
    /\ UNCHANGED <<fs_client, fs_queries, res_progress>>
    /\ ProbeFrame

\* lines 35-52: the collection lookup or the next count_documents call raises;
\* control goes to the finally clause
ProbeQueryRaises ==
    /\ fs_pc = "try"
    /\ fs_queries < CountQueries
    /\ fs_pc' = "finally"
    /\ fs_outcome' = "raise"
    /\ UNCHANGED <<fs_client, fs_queries, res_progress>>
    /\ ProbeFrame

\* lines 54-65: the result is built; the return goes through the finally clause
ProbeResult ==
    /\ fs_pc = "try"
    /\ fs_queries = CountQueries
    /\ res_progress' = Progress(arg_v1, arg_v2)
    /\ fs_pc' = "finally"
    /\ fs_outcome' = "return"
    /\ UNCHANGED <<fs_client, fs_queries>>
    /\ ProbeFrame

\* lines 66-67: client.close(), then the return or the exception goes on
ProbeClose ==
    /\ fs_pc = "finally"
    /\ fs_client' = "closed"
    /\ fs_pc' = IF fs_outcome = "return" THEN "returned" ELSE "raised"
    /\ UNCHANGED <<fs_queries, fs_outcome, res_progress>>
    /\ ProbeFrame

fetch_stats ==
    \/ ProbeOpen
    \/ ProbeOpenRaises
    \/ ProbeQuery
    \/ ProbeQueryRaises
    \/ ProbeResult
    \/ ProbeClose

(***************************************************************************)
(* Specifications                                                          *)
(***************************************************************************)
StartOutcomes ==
    {Outcome(u, d, iv) : u \in UriTexts, d \in DbTexts, iv \in IntervalTexts}

\* valid texts that ask for a one-second interval
ShortOutcomes == {o \in StartOutcomes : o.interval = 1}

\* the user presses Start only once the worker of the previous session has exited
NoOverlap == running \/ Live = {}

Start == \E o \in StartOutcomes : start_call(o)
StartShort == \E o \in ShortOutcomes : start_call(o)
Stop == stop
Worker == \E t \in Threads : worker_loop(t)
Pump == pump_queue

\* one worker at a time, the clock never set back
Next == (NoOverlap /\ Start) \/ Dismiss \/ Stop \/ Worker \/ Pump \/ ClockTick

Spec == Init /\ [][Next]_vars

\* one worker at a time with a one-second interval, the clock may be set back
NextSkew ==
    \/ (NoOverlap /\ StartShort) \/ Dismiss \/ Stop \/ Worker \/ Pump
    \/ ClockTick \/ ClockSetBack

SpecSkew == Init /\ [][NextSkew]_vars

\* Start pressed at any time, so that the worker of a stopped session may still
\* be alive; valid texts with a one-second interval, every probe succeeds
FetchOkFew(t) == SamplesInFlight < MaxRestartSamples /\ FetchOk(t)

WorkerOk ==
    \E t \in Threads :
        WhileTest(t) \/ FetchOkFew(t) \/ PutStats(t) \/ ForTest(t) \/ SleepWake(t)

NextRestart == StartShort \/ Dismiss \/ Stop \/ WorkerOk \/ Pump \/ ClockTick

SpecRestart == Init /\ [][NextRestart]_vars

\* one worker at a time, with the scheduling the threads get: a worker thread
\* that can take a step takes one, and Tk keeps calling _pump_queue (line 230)
Fairness ==
    /\ \A t \in Threads : WF_vars(worker_loop(t))
    /\ WF_vars(PumpGet)

\* the clock standing still
NextFair == (NoOverlap /\ Start) \/ Dismiss \/ Stop \/ Worker \/ Pump

FairSpec == Init /\ [][NextFair]_vars /\ Fairness

\* an observer starts to follow one of the events waiting in the queue
Mark ==
    /\ marked = 0
    /\ \E k \in 1..Len(event_queue) : marked' = k
    /\ UNCHANGED <<hasMongo, running, worker, stop_event, event_queue, history,
                   status_var, v1_var, rate_var, eta_var, updated_var, dialog, ui, th,
                   now, fresh, stopped, evicted, fnvars>>

\* one worker at a time with a one-second interval, the clock standing still,
\* one queued event followed; Tk keeps calling _pump_queue (line 230)
NextChannel ==
    (NoOverlap /\ StartShort) \/ Dismiss \/ Stop \/ Worker \/ Pump \/ Mark

FairChannel == Init /\ [][NextChannel]_vars /\ WF_vars(PumpGet)

\* the counting step alone, for every pair of counts up to MaxArg
InitProgress ==
    /\ InitApp
    /\ arg_v1 \in 0..MaxArg
    /\ arg_v2 \in 0..MaxArg
    /\ res_progress = Unset
    /\ arg_seconds = 0
    /\ res_duration = EtaDash
    /\ arg_history = <<>>
    /\ arg_stats_v1 = 0
    /\ res_rate = Dash
    /\ res_eta = EtaDash
    /\ ProbeNotCalled

SpecProgress == InitProgress /\ [][CountStep]_vars

\* format_duration alone, for whole seconds from 0 to MaxDuration strides
SecondsInputs == {k * DurationStride : k \in 0..MaxDuration}

InitDuration ==
    /\ InitApp
    /\ arg_v1 = 0
    /\ arg_v2 = 0
    /\ res_progress = Unset
    /\ arg_seconds \in SecondsInputs
    /\ res_duration = EtaDash
    /\ arg_history = <<>>
    /\ arg_stats_v1 = 0
    /\ res_rate = Dash
    /\ res_eta = EtaDash
    /\ ProbeNotCalled

SpecDuration == InitDuration /\ [][DurationStep]_vars

\* the estimate alone, for histories of one or two entries
EstimateTimes == {0, 1800, 3600}
EstimateCounts == {0, 1, 90, 100}
EstimateSamples == [ts : EstimateTimes, v1 : EstimateCounts]
EstimateHistories ==
    {<<a>> : a \in EstimateSamples} \cup {<<a, b>> : a, b \in EstimateSamples}

InitEstimate ==
    /\ InitApp
    /\ arg_v1 = 0
    /\ arg_v2 = 0
    /\ res_progress = Unset
    /\ arg_seconds = 0
    /\ res_duration = EtaDash
    /\ arg_history \in EstimateHistories
    /\ arg_stats_v1 \in EstimateCounts
    /\ res_rate = Dash
    /\ res_eta = EtaDash
    /\ ProbeNotCalled

SpecEstimate == InitEstimate /\ [][EstimateStep]_vars

\* one fetch_stats call alone, for every pair of counts up to MaxArg
SpecProbe == InitProgress /\ [][fetch_stats]_vars

(***************************************************************************)
(* Claims                                                                  *)
(***************************************************************************)
\* an _apply_stats step: _pump_queue takes a "stats" event off the queue
IsApply ==
    /\ event_queue # <<>>
    /\ Head(event_queue).kind = "stats"
    /\ event_queue' = Tail(event_queue)

\* C1: at most one worker thread is inside _worker_loop in every reachable
\* state, also after stop() followed by start().
C1_AtMostOneWorker == Cardinality(Live) <= 1

\* C2: once stop() has run while a worker was in its inter-poll wait, every
\* further step of that worker leads to the loop test or out of the loop: it
\* begins no further sleep and no further probe.
C2_StopEndsWait ==
    [][\A t \in Threads :
          (t \in stopped /\ th'[t] # th[t]) => th'[t].pc \in {"while", "none"}]_vars

\* C3: no sample of an earlier session enters the history of the current one:
\* as long as the worker of the current session has queued no sample, history
\* is empty.
C3_HistoryOfThisSession == fresh => history = <<>>

\* C4: a probe failure leaves the worker in its loop at the start of the full
\* inter-poll wait; the wait ends early only when the stop event is set; and
\* from there the worker begins the next probe unless stop() is issued.
FailureStep(t) ==
    /\ th[t].pc = "fetch"
    /\ th'[t] # th[t]
    /\ event_queue' = Append(event_queue, ErrorEvent)

C4_FailureDoesNotStopPolling ==
    /\ [][\A t \in Threads :
             FailureStep(t) =>
                 /\ th'[t].pc = "for"
                 /\ th'[t].interval = th[t].interval
                 /\ th'[t].left = th[t].interval * 10]_vars
    /\ [][\A t \in Threads :
             (th[t].pc \in {"for", "sleep"} /\ th'[t].pc = "while" /\ ~stop_event)
             => (th[t].pc = "sleep" /\ th[t].left = 1)]_vars
    /\ \A t \in Threads :
          (th[t].pc = "for") ~> (th[t].pc = "fetch" \/ stop_event)

\* witness of C4: the last event put is the error of a failed probe, and the
\* worker that put it is in the last sleep of its full wait, the stop event clear
C4_WaitAfterFailure ==
    /\ running
    /\ ~stop_event
    /\ worker \in Live
    /\ th[worker].pc = "sleep"
    /\ th[worker].left = 1
    /\ event_queue # <<>>
    /\ event_queue[Len(event_queue)].kind = "error"

\* C5: start() with an empty endpoint or database name, or an interval text
\* that is not a positive integer, is rejected and leaves running, the worker
\* threads, stop_event, history, the queue and the status as they were.
NotPositiveIntegerTexts == { <<"0">>, <<"-", "5">>, <<"a", "b", "c">>, <<>> }

BadConfig(u, d, iv) == u = <<>> \/ d = <<>> \/ iv \in NotPositiveIntegerTexts

\* what the validation of start() decides for those texts
RejectedOutcomes ==
    {Outcome(u, d, iv) : <<u, d, iv>> \in
        {c \in UriTexts \X DbTexts \X IntervalTexts : BadConfig(c[1], c[2], c[3])}}

C5_RejectedStartChangesNothing ==
    [][\A o \in RejectedOutcomes :
          (~running /\ start_call(o))
          => /\ dialog' # "none"
             /\ running' = FALSE
             /\ UNCHANGED <<worker, th, stop_event, history, event_queue,
                            status_var>>]_vars

\* witness of C5: the error dialog of a rejected start() is open after an
\* earlier session left samples in history
C5_RejectedAfterSession ==
    /\ dialog = "Config error"
    /\ ~running
    /\ history # <<>>

\* C6: start() while a session is running spawns no thread and leaves running,
\* stop_event, history, the worker reference and the status unchanged.
C6_StartWhileRunningIsNoOp ==
    [][\A o \in StartOutcomes :
          (running /\ start_call(o))
          => UNCHANGED <<running, stop_event, history, worker, status_var, th>>]_vars

\* witness of C6: a running session whose worker sleeps, the Tk thread free to
\* run start()
C6_RunningAndStartCallable ==
    /\ running
    /\ hasMongo
    /\ ui = "idle"
    /\ dialog = "none"
    /\ th[worker].pc = "sleep"
    /\ history # <<>>

\* C7: the timestamps of history are non-decreasing from first to last.
C7_HistoryOrdered ==
    \A i \in 1..(Len(history) - 1) : history[i].ts <= history[i + 1].ts

\* C8: on every applied sample, fewer than two retained entries, or
\* oldest.v1 - newest.v1 <= 0, or newest.ts - oldest.ts <= 0, give throughput
\* 0 and the ETA "n/a"; the throughput is never negative or infinite, and the
\* ETA is known only when the throughput is above 0.
C8_NoNegativeOrInfiniteRate ==
    [][IsApply =>
          LET h == history'
              n == Len(h)
          IN  /\ (n < 2 \/ h[1].v1 - h[n].v1 <= 0 \/ h[n].ts - h[1].ts <= 0)
                 => (rate_var' = NotAvailable /\ eta_var' = EtaNotAvailable)
              /\ rate_var'.den > 0
              /\ rate_var'.num >= 0
              /\ eta_var'.kind # "n/a" => rate_var'.num > 0
              /\ eta_var'.kind # "-" /\ rate_var'.kind # "-"]_vars

\* witness of C8: a sample was applied whose window shows work increased over
\* a positive time, and no rate is shown
C8_WorkIncreased ==
    /\ ui = "pump"
    /\ Len(history) >= 2
    /\ history[1].v1 < history[Len(history)].v1
    /\ history[1].ts < history[Len(history)].ts
    /\ rate_var = NotAvailable
    /\ eta_var = EtaNotAvailable

\* C9: when _apply_stats computes the rate, the oldest and the newest entry it
\* uses are no more than 6 hours older than the latest sample, the one applied.
C9_WithinSixHoursOfSample ==
    [][(IsApply /\ Len(history') >= 2) =>
          LET latest == Head(event_queue).ts
          IN  /\ history'[1].ts >= latest - Retention
              /\ history'[Len(history')].ts >= latest - Retention]_vars

\* what line 234 gives in place of C9: every entry _apply_stats keeps is no more
\* than 6 hours older than the clock reading it takes, and every entry that old
\* or newer is kept.
C9_WithinSixHoursOfClock ==
    [][IsApply =>
          LET appended == Append(history, [ts |-> Head(event_queue).ts,
                                           v1 |-> Head(event_queue).v1])
              inside == {i \in 1..Len(appended) : appended[i].ts >= now - Retention}
          IN  /\ \A i \in 1..Len(history') : history'[i].ts >= now - Retention
              /\ Len(history') = Cardinality(inside)]_vars

\* the case of C9: the last _apply_stats dropped an entry and computed a rate
\* from the two it kept
C9_EvictedThenRated ==
    /\ ui = "pump"
    /\ evicted > 0
    /\ Len(history) >= 2
    /\ rate_var.kind = "v1/hour"

\* C10 as stated: progress lies in [0, 100] and is 100 iff both counts are 0.
InRange(p) == 0 <= p.num /\ p.num <= 100 * p.den
IsHundred(p) == p.num = 100 * p.den

C10_HundredIffBothZero ==
    res_progress.kind = "pct" =>
        /\ InRange(res_progress)
        /\ IsHundred(res_progress) <=> (arg_v1 = 0 /\ arg_v2 = 0)

\* C10 amended: progress lies in [0, 100] and is 100 iff v1_remaining is 0.
C10_HundredIffNothingRemains ==
    res_progress.kind = "pct" =>
        /\ res_progress.den > 0
        /\ InRange(res_progress)
        /\ IsHundred(res_progress) <=> (arg_v1 = 0)

\* witness of C10: everything is migrated, v2_done is not 0, progress is 100
C10_AllMigrated ==
    /\ res_progress.kind = "pct"
    /\ arg_v1 = 0
    /\ arg_v2 > 0
    /\ IsHundred(res_progress)

\* C11: for every non-negative number of seconds, format_duration renders at
\* most two units, the largest two of days, hours and minutes, and no unit finer
\* than minutes.
UnitsShown(d) ==
    CASE d.kind = "dhm" -> <<"d", "h", "m">>
      [] d.kind = "hm" -> <<"h", "m">>
      [] d.kind = "m" -> <<"m">>
      [] OTHER -> <<>>

C11_AtMostTwoUnits ==
    res_duration # EtaDash =>
        /\ Len(UnitsShown(res_duration)) \in {1, 2}
        /\ \A i \in 1..Len(UnitsShown(res_duration)) :
              UnitsShown(res_duration)[i] \in {"d", "h", "m"}

\* C12: whenever the retained history has oldest (t_o, w_o) and newest
\* (t_n, w_n) with w_o > w_n and t_n > t_o, the rate shown is
\* (w_o - w_n) * 3600 / (t_n - t_o) per hour and the ETA shown is
\* v1_ready * 3600 / rate seconds, in whole minutes (the minute shown is at
\* most one minute below the quotient); history [(0, 100), (3600, 90)] with
\* v1_ready 90 shows 10 per hour and "9h 0m".
ShownSeconds(d) == ((d.days * 24 + d.hours) * 60 + d.minutes) * 60

ExampleHistory == <<[ts |-> 0, v1 |-> 100], [ts |-> 3600, v1 |-> 90]>>

C12_TwoPointEstimate ==
    res_rate # Dash =>
        LET h == arg_history
            dw == h[1].v1 - h[Len(h)].v1
            dt == h[Len(h)].ts - h[1].ts
        IN  /\ (Len(h) >= 2 /\ dw > 0 /\ dt > 0) =>
                  /\ res_rate.kind = "v1/hour"
                  /\ res_rate.num * dt = dw * 3600 * res_rate.den
                  /\ res_eta.kind \in {"dhm", "hm", "m"}
                  /\ ShownSeconds(res_eta) * dw <= arg_stats_v1 * dt
                  /\ arg_stats_v1 * dt <= (ShownSeconds(res_eta) + 60) * dw
            /\ (h = ExampleHistory /\ arg_stats_v1 = 90) =>
                  /\ res_rate.kind = "v1/hour"
                  /\ res_rate.num = 10 * res_rate.den
                  /\ res_eta = [kind |-> "hm", days |-> 0, hours |-> 9, minutes |-> 0]

\* witness of C12: the estimate was computed for the history of the example
C12_ExampleEstimated ==
    /\ arg_history = ExampleHistory
    /\ arg_stats_v1 = 90
    /\ res_rate.kind = "v1/hour"
    /\ res_eta.kind = "hm"

\* C13: history and the rate estimator belong to the worker thread: every step
\* that changes history, or the rate and ETA computed from it, is a step of a
\* worker thread, never one of the presentation thread.
C13_HistoryOwnedByWorker ==
    [][(history' # history \/ rate_var' # rate_var \/ eta_var' # eta_var)
          => \E t \in Threads : worker_loop(t)]_vars

\* C14: every probe of a worker ends in exactly one put before the wait: the
\* sample it returned as a "stats" event, or one "error" event when it failed;
\* nothing is put while fetch_stats runs or during the wait, and a probe is
\* begun only from the loop test, never again from a failed probe or the wait.
C14_OneEventPerProbe ==
    [][\A t \in Threads :
          th'[t] # th[t] =>
              /\ (th[t].pc = "fetch" /\ th'[t].pc = "put")
                 => event_queue' = event_queue
              /\ th[t].pc = "put"
                 => /\ th'[t].pc = "for"
                    /\ event_queue' = Append(event_queue, StatsEvent(th[t].held))
              /\ (th[t].pc = "fetch" /\ th'[t].pc # "put")
                 => /\ th'[t].pc = "for"
                    /\ event_queue' = Append(event_queue, ErrorEvent)
              /\ th[t].pc \in {"for", "sleep", "while"}
                 => event_queue' = event_queue
              /\ th'[t].pc = "fetch" => th[t].pc = "while"]_vars

\* witness of C14: a failed probe and then a successful one each left one
\* event, and the worker is in the wait after the second
C14_ErrorThenStats ==
    /\ running
    /\ worker \in Live
    /\ th[worker].pc = "for"
    /\ Len(event_queue) = 2
    /\ event_queue[1].kind = "error"
    /\ event_queue[2].kind = "stats"

\* C15: the step of _pump_queue that takes an "error" event sets the status to
\* the error and leaves the counters, rate, ETA and last update shown, and
\* history, as they were.
IsErrorStep ==
    /\ event_queue # <<>>
    /\ Head(event_queue).kind = "error"
    /\ event_queue' = Tail(event_queue)

C15_ErrorChangesOnlyStatus ==
    [][IsErrorStep =>
          /\ status_var' = "Error"
          /\ UNCHANGED <<history, v1_var, rate_var, eta_var, updated_var>>]_vars

\* witness of C15: the error is shown next to the count, rate and ETA of the
\* last successful sample
C15_ErrorBesideLastValues ==
    /\ status_var = "Error"
    /\ ui = "pump"
    /\ history # <<>>
    /\ v1_var.kind = "int"
    /\ rate_var.kind = "v1/hour"
    /\ eta_var.kind \in {"dhm", "hm", "m"}
    /\ updated_var.kind = "at"

\* C16: stop() when no session is running changes nothing, and every stop()
\* leaves running False, so a second stop() right after it is that case.
C16_StopIdempotent ==
    [][stop => /\ ~running'
               /\ ~running => UNCHANGED <<appvars, fnvars>>]_vars

\* witness of C16: a session was stopped and stop() can be called again
C16_StoppedAndStopCallable ==
    /\ ~running
    /\ stop_event
    /\ worker # 0
    /\ status_var = "Stopped"
    /\ ui = "idle"
    /\ dialog = "none"

\* C17: no call on the presentation thread waits for a worker: whenever the Tk
\* thread is free, start() with any texts and stop() can run to completion at
\* once, whatever position each worker is in; _pump_queue can always take its
\* next step, an event or the end of the drain, without waiting for an event;
\* and a worker at its put can always put, whatever the Tk thread is doing.
C17_NothingWaits ==
    /\ (ui = "idle" /\ dialog = "none")
       => /\ \A o \in StartOutcomes : ENABLED start_call(o)
          /\ ENABLED stop
    /\ ENABLED pump_queue
    /\ \A t \in Threads :
          (th[t].pc = "put" /\ Len(event_queue) < MaxQueue) => ENABLED PutStats(t)

\* witness of C17: a probe is in flight, nothing is queued, and the Tk thread
\* is free to run start(), stop() or a drain
C17_FreeDuringProbe ==
    /\ running
    /\ worker \in Live
    /\ th[worker].pc = "fetch"
    /\ event_queue = <<>>
    /\ ui = "idle"
    /\ dialog = "none"
    /\ history # <<>>

\* C18: a fetch_stats call holds an open client exactly while it is inside its
\* try statement; once it has returned or raised, whether all five count
\* queries succeeded or one of them failed, its client is closed (or was never
\* created), and a call that returns has run all five queries.
C18_ConnectionReleased ==
    /\ fs_pc \in {"try", "finally"} <=> fs_client = "open"
    /\ fs_pc = "returned" => fs_client = "closed"
    /\ (fs_pc = "raised" /\ fs_queries > 0) => fs_client = "closed"
    /\ fs_pc = "returned" => (fs_queries = 5 /\ res_progress.kind = "pct")

\* witness of C18: the fourth count query raised and the call has propagated
\* the exception with its client closed
C18_ClosedAfterFailure ==
    /\ fs_pc = "raised"
    /\ fs_queries = 3
    /\ fs_client = "closed"

\* C19: whenever the status reads "Running" a session is running, and while no
\* session is running a status of "Stopped" stays "Stopped": events still
\* queued, or still produced by the stopped worker, do not change it.
C19_StatusAgrees ==
    /\ [](status_var = "Running" => running)
    /\ [][(~running /\ ~running' /\ status_var = "Stopped")
            => status_var' = "Stopped"]_vars

\* C20: the queue changes only by a worker appending one event at the tail or
\* by _pump_queue removing the head and applying it in the same step; an event
\* waiting in the queue keeps its place until the events before it are taken,
\* stays in the queue until it is taken, and is eventually taken (given that
\* _pump_queue keeps being run).
Applied(e) ==
    IF e.kind = "error"
    THEN status_var' = "Error" /\ history' = history
    ELSE /\ history' = Retained(Append(history, [ts |-> e.ts, v1 |-> e.v1]), now)
         /\ v1_var' = format_int(e.v1)
         /\ status_var' = "Running"

C20_ExactlyOnceInOrder ==
    /\ [][event_queue' # event_queue =>
             \/ /\ Len(event_queue') = Len(event_queue) + 1
                /\ SubSeq(event_queue', 1, Len(event_queue)) = event_queue
                /\ \E t \in Threads : th'[t] # th[t]
             \/ /\ event_queue # <<>>
                /\ event_queue' = Tail(event_queue)
                /\ ui' = "pump"
                /\ Applied(Head(event_queue))]_vars
    /\ [][marked > 0 =>
             \/ marked' = marked /\ event_queue'[marked] = event_queue[marked]
             \/ marked' = marked - 1 /\ event_queue' = Tail(event_queue)]_vars
    /\ [](marked <= Len(event_queue))
    /\ (marked > 0) ~> (marked = 0)

\* witness of C20: a drain is under way, the event followed has reached the
\* head of the queue and another waits behind it
C20_FollowedAtHead ==
    /\ marked = 1
    /\ ui = "pump"
    /\ Len(event_queue) = 2

====
